---- MODULE Spec2Model ----
(***************************************************************************)
(* Model of the CMP presign round 5 state machine                          *)
(* (protocols/cmp/presign/presign5.go), of the restartable transcript hash *)
(* (cryptosuite hash.Hash) and of the Pedersen parameter validation        *)
(* (core/pedersen/pedersen.go).                                            *)
(*                                                                         *)
(* Three specifications share the module, one per component:               *)
(*   SpecRound  the round-5 session of one party,                          *)
(*   SpecHash   a transcript backed by a key-linked store,                 *)
(*   SpecPed    ValidateParameters applied to bounded inputs.              *)
(***************************************************************************)
EXTENDS Integers, Sequences, FiniteSets, TLC

VARIABLES
    \* ---- presign5 (one session, party SelfID) ----
    BigGammaShare,       \* map party.ID -> curve.Point (a function on the keys present)
    MessageBroadcasted,  \* map party.ID -> bool        (a function on the keys present)
    out,                 \* the messages Finalize has put on the out channel
    ret,                 \* the last call on the session and what it returned
    accepted,            \* history: the peers whose broadcast StoreBroadcastMessage accepted
    proofStatus,         \* history: per peer, the outcome of its last VerifyMessage
    \* ---- hash.Hash (one transcript and its key-linked store) ----
    hasher,              \* hash.h: the byte stream the BLAKE3 hasher has absorbed
    state,               \* hash.state ([]BytesWithDomain)
    store,               \* the value held by the KeyLinkedStore (<<>>: nothing imported)
    fed,                 \* history: the inputs WriteAny has taken up, in order
    allOk,               \* history: no WriteAny call has returned an error
    hret,                \* the last call on the transcript and what it returned
    \* ---- pedersen.ValidateParameters ----
    pn, ps, pt,          \* the arguments n, s, t (the fields of Parameters)
    pcall,               \* the last call on the Parameters and its arguments
    pret,                \* what the call returned
    \* ---- paillier.PaillierKey and PaillierKeyManager ----
    keystore,            \* the payload the keystore holds (<<>>: none)
    kcall,               \* the last call on a key or on the manager and its arguments
    kret                 \* what the call returned

roundVars == <<BigGammaShare, MessageBroadcasted, out, ret, accepted, proofStatus>>
hashVars  == <<hasher, state, store, fed, allOk, hret>>
pedVars   == <<pn, ps, pt, pcall, pret>>
keyVars   == <<keystore, kcall, kret>>
vars      == <<roundVars, hashVars, pedVars, keyVars>>

\* A nil pointer, a nil interface value, a missing map entry (no point, party or
\* natural number of the model is negative).
Nil == -1
\* The nil error.
NoError == "nil"

(***************************************************************************)
(* Bounds                                                                  *)
(***************************************************************************)
\* Number of parties of the session (the spec's scenarios use 3).
NParties == 3
\* Order of the (cyclic) curve group the points live in.
GroupOrder == 3
\* Successful Finalize calls explored on one session.
MaxFinalize == 2

(***************************************************************************)
(* The curve group (core/math/curve): a cyclic group of order GroupOrder,  *)
(* a point written as its discrete logarithm to the base point.            *)
(***************************************************************************)
Points == 0 .. (GroupOrder - 1)
Scalars == 0 .. (GroupOrder - 1)
\* Group().NewPoint(): the identity.
NewPoint == 0
IsIdentity(P) == P = NewPoint
\* Point.Add
Add(P, Q) == (P + Q) % GroupOrder
\* Scalar.Act
Act(k, P) == (k * P) % GroupOrder

(***************************************************************************)
(* The session's parties and what presign4 left in the session.            *)
(***************************************************************************)
PartyIDs == 1 .. NParties
SelfID == 1
Peers == PartyIDs \ {SelfID}
\* r.N()
N == Cardinality(PartyIDs)

\* The share gamma_j * G each party really holds (non-identity).
HonestGamma(j) == IF j % GroupOrder = 0 THEN 1 ELSE j % GroupOrder
\* r.KShare, the local scalar share k_i.
KShare == GroupOrder - 1
\* r.G[j], r.Paillier[j], r.Pedersen[j]: values stored by the earlier rounds.
G(j) == <<"G", j>>
Paillier(j) == <<"Paillier", j>>
Pedersen(j) == <<"Pedersen", j>>
\* r.HashForID(j): the session transcript forked for party j.
HashForID(j) == <<"hash", j>>

\* Go map operations.
Has(m, k) == k \in DOMAIN m
Lookup(m, k) == IF k \in DOMAIN m THEN m[k] ELSE Nil
Put(m, k, v) == [x \in (DOMAIN m) \cup {k} |-> IF x = k THEN v ELSE m[x]]
EmptyMap == [x \in {} |-> Nil]

(***************************************************************************)
(* zk/logstar and zk/elog, as the protocol uses them: a proof is written   *)
(* as the statement and transcript it was produced for. It verifies        *)
(* exactly when it is intact, the statement is true (X is the share that   *)
(* the ciphertext G[j] encrypts) and statement and transcript are the ones *)
(* the verifier supplies; a missing (nil) X never verifies.                *)
(***************************************************************************)
Proofs == [stmt : Peers, X : Points, Aux : PartyIDs, intact : BOOLEAN]
ProofStatement(p) ==
    [C |-> G(p.stmt), X |-> p.X, Prover |-> Paillier(p.stmt), Aux |-> Pedersen(p.Aux)]
LogstarVerify(p, h, public) ==
    /\ p.intact
    /\ public.X # Nil
    /\ p.X = HonestGamma(p.stmt)
    /\ h = HashForID(p.stmt)
    /\ public = ProofStatement(p)
\* zkelog.NewProof(group, hash, public, private)
ElogNewProof(h, public) == [hash |-> h, public |-> public]

(***************************************************************************)
(* Messages of round 5 (round.Message with From, To, Content).             *)
(***************************************************************************)
\* Content that is not of the expected type, and a nil pointer of the expected type.
OtherContent == [type |-> "other"]
NilContent == [type |-> "nil"]
Broadcast5(P) == [type |-> "broadcast5", BigGammaShare |-> P]
Message5(p) == [type |-> "message5", ProofLog |-> p]
BroadcastContents == {Broadcast5(P) : P \in Points} \cup {OtherContent, NilContent}
DirectContents == {Message5(p) : p \in Proofs} \cup {OtherContent, NilContent}
\* What peer j sends when it follows the protocol.
HonestBroadcast(j) == [From |-> j, To |-> Nil, Content |-> Broadcast5(HonestGamma(j))]
HonestDirect(j) ==
    [From |-> j, To |-> SelfID,
     Content |-> Message5([stmt |-> j, X |-> HonestGamma(j), Aux |-> SelfID, intact |-> TRUE])]

(***************************************************************************)
(* presign5.StoreBroadcastMessage: the error returned and the two maps     *)
(* after the call.                                                         *)
(***************************************************************************)
\* Mutant: the sender is marked as received before the share is checked.
StoreBroadcastMessageMarksFirst(gs, mb, msg) ==
    LET body == msg.Content IN
    IF body.type # "broadcast5"
    THEN [err |-> "InvalidContent", BigGammaShare |-> gs, MessageBroadcasted |-> mb]
    ELSE IF IsIdentity(body.BigGammaShare)
    THEN [err |-> "NilFields", BigGammaShare |-> gs,
          MessageBroadcasted |-> Put(mb, msg.From, TRUE)]
    ELSE [err |-> NoError,
          BigGammaShare |-> Put(gs, msg.From, body.BigGammaShare),
          MessageBroadcasted |-> Put(mb, msg.From, TRUE)]

StoreBroadcastMessage(gs, mb, msg) ==
    LET body == msg.Content IN
    IF body.type # "broadcast5"
    THEN [err |-> "InvalidContent", BigGammaShare |-> gs, MessageBroadcasted |-> mb]
    ELSE IF IsIdentity(body.BigGammaShare)
    THEN [err |-> "NilFields", BigGammaShare |-> gs, MessageBroadcasted |-> mb]
    ELSE [err |-> NoError,
          BigGammaShare |-> Put(gs, msg.From, body.BigGammaShare),
          MessageBroadcasted |-> Put(mb, msg.From, TRUE)]

(***************************************************************************)
(* presign5.VerifyMessage: the error returned (the call writes nothing).   *)
(***************************************************************************)
\* Mutant: the proof is checked against the sender's Pedersen parameters.
VerifyMessageAuxOfSender(gs, msg) ==
    LET from == msg.From
        body == msg.Content
    IN  IF body.type # "message5"
        THEN "InvalidContent"
        ELSE IF ~LogstarVerify(body.ProofLog, HashForID(msg.From),
                               [C |-> G(from), X |-> Lookup(gs, from),
                                Prover |-> Paillier(from), Aux |-> Pedersen(from)])
        THEN "ProofFailed"
        ELSE NoError

VerifyMessage(gs, msg) ==
    LET from == msg.From
        to == msg.To
        body == msg.Content
    IN  IF body.type # "message5"
        THEN "InvalidContent"
        ELSE IF ~LogstarVerify(body.ProofLog, HashForID(msg.From),
                               [C |-> G(from), X |-> Lookup(gs, from),
                                Prover |-> Paillier(from), Aux |-> Pedersen(to)])
        THEN "ProofFailed"
        ELSE NoError

(***************************************************************************)
(* presign5.Finalize. order is the order in which the range over           *)
(* r.BigGammaShare visits the keys, sendOk whether BroadcastMessage could  *)
(* put the message on out. Returns the error, the messages sent and the    *)
(* session returned (next = <<>> for a nil session, r itself is written as *)
(* round 5).                                                               *)
(***************************************************************************)
\* for _, GammaJ := range r.BigGammaShare { Gamma = Gamma.Add(GammaJ) }
RECURSIVE SumShares(_, _, _)
SumShares(gs, order, acc) ==
    IF order = <<>> THEN acc
    ELSE SumShares(gs, Tail(order), Add(acc, gs[Head(order)]))

\* The orders a range over a map can take: the enumerations of its keys.
RECURSIVE Orders(_)
Orders(S) ==
    IF S = {} THEN {<<>>}
    ELSE UNION {{<<k>> \o o : o \in Orders(S \ {k})} : k \in S}
RangeOrders(m) == Orders(DOMAIN m)

\* Mutant: the local party is counted among the broadcasters.
NotEnoughMessagesCountsSelf(mb) == Cardinality(DOMAIN mb) # N

\* len(r.MessageBroadcasted) != r.N()-1
NotEnoughMessages(mb) == Cardinality(DOMAIN mb) # N - 1

Round5Session == [round |-> 5]
Presign6(Gamma, BigDeltaShare) ==
    [round |-> 6, Gamma |-> Gamma,
     BigDeltaShares |-> Put(EmptyMap, SelfID, BigDeltaShare),
     MessageBroadcasted |-> EmptyMap]

\* Mutant: the sum ranges over the broadcasters only, the local share is left out.
FinalizeOverBroadcasters(gs, mb, order, sendOk) ==
    IF NotEnoughMessages(mb)
    THEN [err |-> "NotEnoughMessages", msgs |-> <<>>, next |-> <<>>]
    ELSE LET Gamma == SumShares(gs, SelectSeq(order, LAMBDA k : k \in DOMAIN mb), NewPoint)
             BigDeltaShare == Act(KShare, Gamma)
             proofLog == ElogNewProof(HashForID(SelfID),
                             [E |-> <<"ElGamalK", SelfID>>, ElGamalPublic |-> <<"ElGamal", SelfID>>,
                              Base |-> Gamma, Y |-> BigDeltaShare])
             broadcast6 == [type |-> "broadcast6", BigDeltaShare |-> BigDeltaShare,
                            Proof |-> proofLog]
         IN  IF ~sendOk
             THEN [err |-> "SendFailed", msgs |-> <<>>, next |-> <<Round5Session>>]
             ELSE [err |-> NoError,
                   msgs |-> <<[From |-> SelfID, To |-> Nil, Content |-> broadcast6]>>,
                   next |-> <<Presign6(Gamma, BigDeltaShare)>>]

Finalize(gs, mb, order, sendOk) ==
    IF NotEnoughMessages(mb)
    THEN [err |-> "NotEnoughMessages", msgs |-> <<>>, next |-> <<>>]
    ELSE LET Gamma == SumShares(gs, order, NewPoint)
             BigDeltaShare == Act(KShare, Gamma)
             proofLog == ElogNewProof(HashForID(SelfID),
                             [E |-> <<"ElGamalK", SelfID>>, ElGamalPublic |-> <<"ElGamal", SelfID>>,
                              Base |-> Gamma, Y |-> BigDeltaShare])
             broadcast6 == [type |-> "broadcast6", BigDeltaShare |-> BigDeltaShare,
                            Proof |-> proofLog]
         IN  IF ~sendOk
             THEN [err |-> "SendFailed", msgs |-> <<>>, next |-> <<Round5Session>>]
             ELSE [err |-> NoError,
                   msgs |-> <<[From |-> SelfID, To |-> Nil, Content |-> broadcast6]>>,
                   next |-> <<Presign6(Gamma, BigDeltaShare)>>]

\* Mutant: the local party is counted among the broadcasters.
CanFinalizeCountsSelf(mb) == Cardinality(DOMAIN mb) = N

\* presign5.CanFinalize
CanFinalize(mb) == Cardinality(DOMAIN mb) = N - 1

(***************************************************************************)
(* The calls on the session. The dispatcher hands the round the messages   *)
(* of the other parties of the session. ret records the call, the error it *)
(* returned, the sender, the shape of the content, whether the message is  *)
(* the one an honest sender sends, and the session Finalize returned.      *)
(***************************************************************************)
Returned(op, err, from, arg, honest, next) ==
    [op |-> op, err |-> err, from |-> from, arg |-> arg, honest |-> honest, next |-> next]

\* The shape of a broadcast content.
ArgKind(content) ==
    IF content.type # "broadcast5" THEN content.type
    ELSE IF content.BigGammaShare = NewPoint THEN "identity" ELSE "point"

DoStoreBroadcastMessage ==
    /\ \E from \in Peers, content \in BroadcastContents :
        LET msg == [From |-> from, To |-> Nil, Content |-> content]
            res == StoreBroadcastMessage(BigGammaShare, MessageBroadcasted, msg)
        IN  /\ BigGammaShare' = res.BigGammaShare
            /\ MessageBroadcasted' = res.MessageBroadcasted
            /\ ret' = Returned("StoreBroadcastMessage", res.err, from, ArgKind(content),
                               msg = HonestBroadcast(from), <<>>)
            /\ accepted' = IF res.err = NoError THEN accepted \cup {from} ELSE accepted
    /\ UNCHANGED <<out, proofStatus, hashVars, pedVars, keyVars>>

\* The direct messages the dispatcher can hand over as coming from peer from.
DirectMessages(from) ==
    {[From |-> from, To |-> to, Content |-> content] :
        to \in PartyIDs, content \in DirectContents}

\* What VerifyMessage can return for the messages from peer from, and whether the
\* message is the honest one, when r.BigGammaShare[from] is X (Nil: no entry).
\* VerifyMessage reads r.BigGammaShare at msg.From only.
VerifyOutcomes[from \in Peers, X \in Points \cup {Nil}] ==
    {[err |-> VerifyMessage(IF X = Nil THEN EmptyMap ELSE Put(EmptyMap, from, X), msg),
      honest |-> msg = HonestDirect(from)] : msg \in DirectMessages(from)}

\* The same, with the To field of the message.
VerifyOutcomesTo[from \in Peers, X \in Points \cup {Nil}] ==
    {[err |-> VerifyMessage(IF X = Nil THEN EmptyMap ELSE Put(EmptyMap, from, X), msg),
      honest |-> msg = HonestDirect(from), to |-> msg.To] : msg \in DirectMessages(from)}

\* track: whether the specification records the outcome in proofStatus and the To
\* field of the message in ret.
VerifyMessageStep(track) ==
    /\ \E from \in Peers :
         \E res \in IF track THEN VerifyOutcomesTo[from, Lookup(BigGammaShare, from)]
                    ELSE VerifyOutcomes[from, Lookup(BigGammaShare, from)] :
            /\ ret' = Returned("VerifyMessage", res.err, from,
                               IF track THEN <<"direct", res.to>> ELSE "direct",
                               res.honest, <<>>)
            /\ proofStatus' =
                 IF ~track \/ res.err = "InvalidContent" THEN proofStatus
                 ELSE [proofStatus EXCEPT
                         ![from] = IF res.err = NoError THEN "ok" ELSE "failed"]
    /\ UNCHANGED <<BigGammaShare, MessageBroadcasted, out, accepted, hashVars, pedVars, keyVars>>

DoVerifyMessage == VerifyMessageStep(FALSE)
DoVerifyMessageTracked == VerifyMessageStep(TRUE)

\* Mutant: storing a direct message marks a peer as having broadcast.
DoStoreMessageMarksSender ==
    /\ \E from \in Peers : MessageBroadcasted' = Put(MessageBroadcasted, from, TRUE)
    /\ ret' = Returned("StoreMessage", NoError, SelfID, "direct", FALSE, <<>>)
    /\ UNCHANGED <<BigGammaShare, out, accepted, proofStatus,
                   hashVars, pedVars, keyVars>>

\* presign5.StoreMessage: returns nil.
DoStoreMessage ==
    /\ ret' = Returned("StoreMessage", NoError, SelfID, "direct", FALSE, <<>>)
    /\ UNCHANGED <<BigGammaShare, MessageBroadcasted, out, accepted, proofStatus,
                   hashVars, pedVars, keyVars>>

DoFinalize ==
    /\ \E res \in {Finalize(BigGammaShare, MessageBroadcasted, order, sendOk) :
                     order \in RangeOrders(BigGammaShare), sendOk \in BOOLEAN} :
        /\ Len(out) + Len(res.msgs) <= MaxFinalize
        /\ out' = out \o res.msgs
        /\ ret' = Returned("Finalize", res.err, SelfID, "none", FALSE, res.next)
    /\ UNCHANGED <<BigGammaShare, MessageBroadcasted, accepted, proofStatus,
                   hashVars, pedVars, keyVars>>

(***************************************************************************)
(* Specifications. Each one runs one component and holds the others still. *)
(* The session starts as presign4.Finalize built it: the local party's own *)
(* share is in BigGammaShare, nobody has broadcast yet.                    *)
(***************************************************************************)
InitRound ==
    /\ BigGammaShare = Put(EmptyMap, SelfID, HonestGamma(SelfID))
    /\ MessageBroadcasted = EmptyMap
    /\ out = <<>>
    /\ ret = Returned("none", NoError, SelfID, "none", FALSE, <<>>)
    /\ accepted = {}
    /\ proofStatus = [j \in Peers |-> "none"]
    /\ hasher = <<>> /\ state = <<>> /\ store = <<>> /\ fed = <<>>
    /\ allOk = TRUE /\ hret = Nil
    /\ pn = Nil /\ ps = Nil /\ pt = Nil /\ pcall = Nil /\ pret = "none"
    /\ keystore = <<>> /\ kcall = Nil /\ kret = Nil

NextRound ==
    \/ DoStoreBroadcastMessage
    \/ DoVerifyMessage
    \/ DoStoreMessage
    \/ DoFinalize

SpecRound == InitRound /\ [][NextRound]_vars

\* The same session, with the outcome of each log* verification recorded.
NextRoundProofs ==
    \/ DoStoreBroadcastMessage
    \/ DoVerifyMessageTracked
    \/ DoStoreMessage
    \/ DoFinalize

SpecRoundProofs == InitRound /\ [][NextRoundProofs]_vars

(***************************************************************************)
(* Claims about presign round 5.                                           *)
(***************************************************************************)

\* C1: a StoreBroadcastMessage from a sender whose broadcast was already accepted is
\* refused (DuplicateMessage, or the error of its malformed content), and leaves
\* BigGammaShare and MessageBroadcasted as the first accepted broadcast set them.
C1_DuplicateBroadcastRejected ==
    [][\A j \in Peers :
          (j \in accepted /\ ret'.op = "StoreBroadcastMessage" /\ ret'.from = j)
          => /\ ret'.err \in {"DuplicateMessage", "InvalidContent", "NilFields"}
             /\ BigGammaShare' = BigGammaShare
             /\ MessageBroadcasted' = MessageBroadcasted]_vars

\* C2: Finalize returns NotEnoughMessages exactly when the number of distinct peers
\* whose broadcast was accepted is not N-1, and then it sends nothing, returns no
\* session and leaves BigGammaShare and MessageBroadcasted as they were.
C2_FinalizeNeedsAllPeers ==
    [][ret'.op = "Finalize"
       => /\ (ret'.err = "NotEnoughMessages") <=> (Cardinality(accepted') # N - 1)
          /\ ret'.err = "NotEnoughMessages"
             => /\ out' = out
                /\ ret'.next = <<>>
                /\ BigGammaShare' = BigGammaShare
                /\ MessageBroadcasted' = MessageBroadcasted]_vars

\* C2 witness: Finalize was called with one of the two peers' broadcasts accepted and
\* returned NotEnoughMessages.
C2_Witness ==
    /\ ret.op = "Finalize" /\ ret.err = "NotEnoughMessages"
    /\ Cardinality(accepted) = 1 /\ out = <<>>

\* The peers that delivered valid messages: broadcast accepted and log* proof verified.
ValidPeers == {j \in Peers : j \in accepted /\ proofStatus[j] = "ok"}

\* C3: once VerifyMessage has rejected a peer's log* proof, Finalize returns
\* NotEnoughMessages as long as fewer than N-1 peers have delivered valid messages.
C3_RejectedProofBlocksFinalize ==
    (/\ ret.op = "Finalize"
     /\ \E j \in Peers : proofStatus[j] = "failed"
     /\ Cardinality(ValidPeers) < N - 1)
    => ret.err = "NotEnoughMessages"

\* C4: the session advances to round 6 at most once: Finalize never puts a second
\* round-6 broadcast on out.
C4_FinalizeAdvancesOnce == Len(out) <= 1

\* C5: a broadcast of the wrong type (or nil) returns InvalidContent, an identity
\* share returns NilFields, either leaves BigGammaShare and MessageBroadcasted as they
\* were, and a valid broadcast of the same sender right after it is accepted.
C5_RejectedBroadcastChangesNothing ==
    [][ret'.op = "StoreBroadcastMessage"
       => /\ ret'.arg \in {"nil", "other"} => ret'.err = "InvalidContent"
          /\ ret'.arg = "identity" => ret'.err = "NilFields"
          /\ ret'.err \in {"InvalidContent", "NilFields"}
             => /\ BigGammaShare' = BigGammaShare
                /\ MessageBroadcasted' = MessageBroadcasted
          /\ (/\ ret.op = "StoreBroadcastMessage"
              /\ ret.err \in {"InvalidContent", "NilFields"}
              /\ ret'.from = ret.from /\ ret'.arg = "point" /\ ret.from \notin accepted)
             => /\ ret'.err = NoError
                /\ ret'.from \in DOMAIN MessageBroadcasted'
                /\ ret'.from \in DOMAIN BigGammaShare']_vars

\* C5 witness: an identity share was refused with NilFields and its sender has no entry.
C5_Witness ==
    /\ ret.op = "StoreBroadcastMessage" /\ ret.err = "NilFields" /\ ret.arg = "identity"
    /\ ret.from \notin DOMAIN MessageBroadcasted
    /\ ret.from \notin DOMAIN BigGammaShare

\* The group sum of the shares of the parties in S, in one fixed order.
RECURSIVE GroupSum(_, _)
GroupSum(gs, S) ==
    IF S = {} THEN NewPoint
    ELSE LET j == CHOOSE x \in S : \A y \in S : x <= y
         IN  Add(gs[j], GroupSum(gs, S \ {j}))

\* Every share recorded so far is the one its honest owner holds.
OnlyHonestShares == \A j \in DOMAIN BigGammaShare : BigGammaShare[j] = HonestGamma(j)

C7_GammaIsSumOfAllShares ==
    (ret.op = "Finalize" /\ ret.err = NoError)
    => /\ accepted = Peers
       /\ DOMAIN BigGammaShare = PartyIDs
       /\ BigGammaShare[SelfID] = HonestGamma(SelfID)
       /\ ret.next[1].round = 6
       /\ ret.next[1].Gamma = GroupSum(BigGammaShare, PartyIDs)
       /\ ret.next[1].BigDeltaShares[SelfID] = Act(KShare, GroupSum(BigGammaShare, PartyIDs))
       /\ out[Len(out)].Content.BigDeltaShare = Act(KShare, GroupSum(BigGammaShare, PartyIDs))
       /\ out[Len(out)].Content.Proof.public.Base = ret.next[1].Gamma

\* C7 witness: Finalize succeeded with a sum that is not the identity.
C7_Witness ==
    /\ ret.op = "Finalize" /\ ret.err = NoError
    /\ ret.next[1].Gamma # NewPoint
    /\ Len(out) = 1

\* C17: MessageBroadcasted has an entry for j exactly when a broadcast of j was
\* accepted, and it was stored once: an accepted broadcast comes from a peer with no
\* entry yet, the share recorded for a peer is never replaced, every marked peer has a
\* non-identity share, and the entries are as many as the peers accepted.
C17_BroadcastStoredOnce ==
    [][/\ DOMAIN MessageBroadcasted' = accepted'
       /\ Cardinality(DOMAIN MessageBroadcasted') = Cardinality(accepted')
       /\ \A j \in DOMAIN MessageBroadcasted' :
            /\ MessageBroadcasted'[j]
            /\ j \in DOMAIN BigGammaShare'
            /\ ~IsIdentity(BigGammaShare'[j])
       /\ (ret'.op = "StoreBroadcastMessage" /\ ret'.err = NoError)
          => ret'.from \notin accepted
       /\ \A j \in accepted : BigGammaShare'[j] = BigGammaShare[j]]_vars

\* The keys of a map in ascending order: one of the orders a range can take.
RECURSIVE Ascending(_)
Ascending(S) ==
    IF S = {} THEN <<>>
    ELSE LET j == CHOOSE x \in S : \A y \in S : x <= y
         IN  <<j>> \o Ascending(S \ {j})
\* The results Finalize can give in a state of the round (C7: the order of the range
\* does not matter to them).
FinalizeResults(gs, mb) ==
    {Finalize(gs, mb, Ascending(DOMAIN gs), sendOk) : sendOk \in BOOLEAN}

\* C18: VerifyMessage and StoreMessage, whatever they return, leave BigGammaShare and
\* MessageBroadcasted as they were and send nothing, so what Finalize gives afterwards
\* is what it would have given before.
C18_DirectMessagesChangeNothing ==
    [][ret'.op \in {"VerifyMessage", "StoreMessage"}
       => /\ BigGammaShare' = BigGammaShare
          /\ MessageBroadcasted' = MessageBroadcasted
          /\ out' = out
          /\ FinalizeResults(BigGammaShare', MessageBroadcasted')
             = FinalizeResults(BigGammaShare, MessageBroadcasted)]_vars

\* C18 witness: a direct message was refused by VerifyMessage while all broadcasts
\* were in, so that Finalize can succeed afterwards.
C18_Witness ==
    /\ ret.op = "VerifyMessage" /\ ret.err = "ProofFailed"
    /\ accepted = Peers
    /\ CanFinalize(MessageBroadcasted)

\* C20: a direct message VerifyMessage accepts was checked against the local party's
\* own Pedersen parameters: the parameters r.Pedersen[msg.To] the proof was verified
\* with are those of self.
C20_AuxIsAlwaysSelf ==
    (ret.op = "VerifyMessage" /\ ret.err = NoError)
    => Pedersen(ret.arg[2]) = Pedersen(SelfID)

(***************************************************************************)
(* hash.Hash: the domain-separated, restartable transcript.                *)
(***************************************************************************)
\* Inputs the transcript takes up in one run.
MaxWrites == 2
\* Inputs of one WriteAny call.
MaxArgs == 2
\* params.BytesIntModN, the fixed width of a number mod N, scaled down.
BytesIntModN == 1

\* The width low-order bytes of n, most significant first.
RECURSIVE BigEndian(_, _)
BigEndian(n, width) ==
    IF width = 0 THEN <<>> ELSE Append(BigEndian(n \div 256, width - 1), n % 256)

\* binary.BigEndian.PutUint64
U64BE(n) == BigEndian(n, 8)

\* Nat.FillBytes(buf): big-endian, padded with zeros to len(buf) bytes.
FillBytes(n, width) == BigEndian(n, width)

\* The bytes of a natural without leading zeros (big-endian), empty for 0.
RECURSIVE NatBytes(_)
NatBytes(n) == IF n = 0 THEN <<>> ELSE Append(NatBytes(n \div 256), n % 256)

\* big.Int.GobEncode: the version and sign byte, then the magnitude.
GobEncode(x) == <<2 + (IF x < 0 THEN 1 ELSE 0)>> \o NatBytes(IF x < 0 THEN -x ELSE x)

\* The bytes of the strings the transcript uses (domain tags, field names).
StringBytes(str) ==
    CASE str = "[]byte" -> <<91, 93, 98, 121, 116, 101>>
      [] str = "big.Int" -> <<98, 105, 103, 46, 73, 110, 116>>
      [] str = "Pedersen Parameters" ->
            <<80, 101, 100, 101, 114, 115, 101, 110, 32,
              80, 97, 114, 97, 109, 101, 116, 101, 114, 115>>
      [] str = "*curve.Scalar" ->
            <<42, 99, 117, 114, 118, 101, 46, 83, 99, 97, 108, 97, 114>>
      [] str = "TheDomain" -> <<84, 104, 101, 68, 111, 109, 97, 105, 110>>
      [] str = "Bytes" -> <<66, 121, 116, 101, 115>>
DomainTags == {"[]byte", "big.Int", "Pedersen Parameters", "*curve.Scalar"}

\* Parameters.WriteTo: N, S, T in fixed width; a nil receiver fails.
PedersenWriteTo(p, isNil) ==
    IF isNil THEN [err |-> "ErrUnexpectedEOF", bytes |-> <<>>]
    ELSE [err |-> NoError,
          bytes |-> FillBytes(p.n, BytesIntModN) \o FillBytes(p.s, BytesIntModN)
                    \o FillBytes(p.t, BytesIntModN)]
\* Parameters.Domain
PedersenDomain == "Pedersen Parameters"

(***************************************************************************)
(* The inputs of WriteAny, by dynamic type:                                *)
(*   bytes       a []byte (val = Nil: a nil slice)                         *)
(*   bigint      a *big.Int (val = Nil: a nil pointer)                     *)
(*   writer      a WriterToWithDomain, here *pedersen.Parameters           *)
(*   marshaler   an encoding.BinaryMarshaler, here a curve scalar          *)
(*   other       anything else, the nil interface value included           *)
(***************************************************************************)
BytesInput(b) == [kind |-> "bytes", nil |-> FALSE, val |-> b]
NilBytesInput == [kind |-> "bytes", nil |-> TRUE, val |-> <<>>]
BigIntInput(x) == [kind |-> "bigint", nil |-> FALSE, val |-> x]
NilBigIntInput == [kind |-> "bigint", nil |-> TRUE, val |-> 0]
WriterInput(p) == [kind |-> "writer", nil |-> FALSE, val |-> p]
NilWriterInput == [kind |-> "writer", nil |-> TRUE, val |-> <<>>]
MarshalerInput(b, ok) == [kind |-> "marshaler", nil |-> ~ok, val |-> b]
OtherInput == [kind |-> "other", nil |-> TRUE, val |-> <<>>]

BytesWithDomain(domain, bytes) == [TheDomain |-> domain, Bytes |-> bytes]

\* Mutant: a nil []byte is written as the empty byte string.
ToBeWrittenNilAsEmpty(d) ==
    CASE d.kind = "bytes" -> [err |-> NoError, w |-> BytesWithDomain("[]byte", d.val)]
      [] d.kind = "bigint" ->
            IF d.nil THEN [err |-> "nil *big.Int", w |-> Nil]
            ELSE [err |-> NoError, w |-> BytesWithDomain("big.Int", GobEncode(d.val))]
      [] d.kind = "writer" ->
            LET wr == PedersenWriteTo(d.val, d.nil)
            IN  IF wr.err # NoError THEN [err |-> wr.err, w |-> Nil]
                ELSE [err |-> NoError, w |-> BytesWithDomain(PedersenDomain, wr.bytes)]
      [] d.kind = "marshaler" ->
            IF d.nil THEN [err |-> "MarshalBinary failed", w |-> Nil]
            ELSE [err |-> NoError, w |-> BytesWithDomain("*curve.Scalar", d.val)]
      [] OTHER -> [err |-> "invalid type", w |-> Nil]

\* The type switch of WriteAny: the error it returns for input d, or the
\* BytesWithDomain it goes on with.
ToBeWritten(d) ==
    CASE d.kind = "bytes" ->
            IF d.nil THEN [err |-> "nil []byte", w |-> Nil]
            ELSE [err |-> NoError, w |-> BytesWithDomain("[]byte", d.val)]
      [] d.kind = "bigint" ->
            IF d.nil THEN [err |-> "nil *big.Int", w |-> Nil]
            ELSE [err |-> NoError, w |-> BytesWithDomain("big.Int", GobEncode(d.val))]
      [] d.kind = "writer" ->
            LET wr == PedersenWriteTo(d.val, d.nil)
            IN  IF wr.err # NoError THEN [err |-> wr.err, w |-> Nil]
                ELSE [err |-> NoError, w |-> BytesWithDomain(PedersenDomain, wr.bytes)]
      [] d.kind = "marshaler" ->
            IF d.nil THEN [err |-> "MarshalBinary failed", w |-> Nil]
            ELSE [err |-> NoError, w |-> BytesWithDomain("*curve.Scalar", d.val)]
      [] OTHER -> [err |-> "invalid type", w |-> Nil]

(***************************************************************************)
(* cbor.Marshal and cbor.Unmarshal of []BytesWithDomain: an array of maps  *)
(* with the two fields keyed by name; every length here is below 24, so a  *)
(* head is one byte (major type plus length).                              *)
(***************************************************************************)
CborText(str) == <<96 + Len(StringBytes(str))>> \o StringBytes(str)
CborBytes(b) == <<64 + Len(b)>> \o b
CborEntry(e) ==
    <<162>> \o CborText("TheDomain") \o CborText(e.TheDomain)
            \o CborText("Bytes") \o CborBytes(e.Bytes)
RECURSIVE CborEntries(_)
CborEntries(st) == IF st = <<>> THEN <<>> ELSE CborEntry(Head(st)) \o CborEntries(Tail(st))
CborMarshal(st) == <<128 + Len(st)>> \o CborEntries(st)

\* The string item at position i: its content and the position after it.
CborItemAt(b, i, major) ==
    LET n == b[i] - major
    IN  [val |-> SubSeq(b, i + 1, i + n), next |-> i + 1 + n]
\* The entry at position i and the position after it.
CborEntryAt(b, i) ==
    LET k1 == CborItemAt(b, i + 1, 96)
        dom == CborItemAt(b, k1.next, 96)
        k2 == CborItemAt(b, dom.next, 96)
        dat == CborItemAt(b, k2.next, 64)
    IN  [val |-> BytesWithDomain(CHOOSE d \in DomainTags : StringBytes(d) = dom.val, dat.val),
         next |-> dat.next]
RECURSIVE CborEntriesAt(_, _, _)
CborEntriesAt(b, i, n) ==
    IF n = 0 THEN <<>>
    ELSE LET e == CborEntryAt(b, i)
         IN  <<e.val>> \o CborEntriesAt(b, e.next, n - 1)
CborUnmarshal(b) == CborEntriesAt(b, 2, b[1] - 128)

(***************************************************************************)
(* A Hash value is [h, state, store]: the hasher's input so far, the state *)
(* list, and the content of the key-linked store behind it.                *)
(***************************************************************************)
HashOf(h, st, sto) == [h |-> h, state |-> st, store |-> sto]
\* hash.New
New == HashOf(<<>>, <<>>, <<>>)

\* Hash.writeBytesWithDomain: "(" <domain_size> <domain> <data_size> <data> ")".
writeBytesWithDomain(hash, toBeWritten) ==
    [hash EXCEPT !.h = @ \o <<40>>
                       \o U64BE(Len(StringBytes(toBeWritten.TheDomain)))
                       \o StringBytes(toBeWritten.TheDomain)
                       \o U64BE(Len(toBeWritten.Bytes))
                       \o toBeWritten.Bytes
                       \o <<41>>]

\* Mutant: the state list keeps the last entry only.
updateStateKeepsLast(hash, toBeWritten, importOk) ==
    LET st == <<toBeWritten>>
        ss == CborMarshal(st)
    IN  [err |-> IF importOk THEN NoError ELSE "ImportFailed",
         hash |-> [hash EXCEPT !.state = st,
                               !.store = IF importOk THEN ss ELSE @]]

\* Hash.updateState: importOk is whether store.Import accepts the new state.
updateState(hash, toBeWritten, importOk) ==
    LET st == Append(hash.state, toBeWritten)
        ss == CborMarshal(st)
    IN  [err |-> IF importOk THEN NoError ELSE "ImportFailed",
         hash |-> [hash EXCEPT !.state = st,
                               !.store = IF importOk THEN ss ELSE @]]

\* Mutant: a write the store refused does not reach the hasher.
RECURSIVE WriteAnyChecksImport(_, _, _)
WriteAnyChecksImport(hash, data, imports) ==
    IF data = <<>> THEN [err |-> NoError, hash |-> hash]
    ELSE LET t == ToBeWritten(Head(data))
         IN  IF t.err # NoError THEN [err |-> t.err, hash |-> hash]
             ELSE LET u == updateState(hash, t.w, Head(imports))
                  IN  IF u.err # NoError THEN [err |-> u.err, hash |-> u.hash]
                      ELSE WriteAnyChecksImport(writeBytesWithDomain(u.hash, t.w),
                                                Tail(data), Tail(imports))

\* Hash.WriteAny(data...): imports[i] is whether the store accepts the Import made
\* for data[i]. The error updateState returns is dropped.
RECURSIVE WriteAny(_, _, _)
WriteAny(hash, data, imports) ==
    IF data = <<>> THEN [err |-> NoError, hash |-> hash]
    ELSE LET t == ToBeWritten(Head(data))
         IN  IF t.err # NoError THEN [err |-> t.err, hash |-> hash]
             ELSE WriteAny(writeBytesWithDomain(updateState(hash, t.w, Head(imports)).hash, t.w),
                           Tail(data), Tail(imports))

\* The BLAKE3 digest of a byte stream, taken as collision-free: a digest stands for
\* the stream it was computed from.
Blake3(stream) == <<"blake3", stream>>

\* Hash.Sum
Sum(hash) == Blake3(hash.h)

\* for _, d := range hash.state { hash.writeBytesWithDomain(d) }
RECURSIVE Replay(_, _)
Replay(hash, entries) ==
    IF entries = <<>> THEN hash
    ELSE Replay(writeBytesWithDomain(hash, Head(entries)), Tail(entries))

\* hash.Restore(store): store.Get fails when nothing was imported.
Restore(sto) ==
    IF sto = <<>> THEN [err |-> "GetFailed", hash |-> <<>>]
    ELSE LET st == CborUnmarshal(sto)
         IN  [err |-> NoError, hash |-> <<Replay(HashOf(<<>>, st, sto), st)>>]

(***************************************************************************)
(* The calls on the transcript.                                            *)
(***************************************************************************)
Inputs ==
    {BytesInput(<<7>>), NilBytesInput, BigIntInput(-1), NilBigIntInput,
     WriterInput([n |-> 15, s |-> 2, t |-> 4]), OtherInput}

\* The sequences over S of length at most n.
RECURSIVE SeqsUpTo(_, _)
SeqsUpTo(S, n) ==
    IF n = 0 THEN {<<>>}
    ELSE LET shorter == SeqsUpTo(S, n - 1)
         IN  shorter \cup {Append(q, x) : q \in {r \in shorter : Len(r) = n - 1}, x \in S}

\* The inputs of a call that WriteAny takes up: those before the first it refuses.
RECURSIVE TakenUp(_)
TakenUp(data) ==
    IF data = <<>> \/ ToBeWritten(Head(data)).err # NoError THEN <<>>
    ELSE <<Head(data)>> \o TakenUp(Tail(data))

\* The calls: the argument list, and the store's answer to each Import the call makes
\* (one for every input taken up).
Calls ==
    {c \in [data : SeqsUpTo(Inputs, MaxArgs), imports : SeqsUpTo(BOOLEAN, MaxArgs)] :
        Len(c.imports) = Len(TakenUp(c.data))}

HashReturned(op, err, sum) == [op |-> op, err |-> err, sum |-> sum]

\* A nil []byte or *big.Int, a writer or marshaler that fails, a value of another
\* type (the nil interface value included).
NilOrUnsupported(d) == d.nil \/ d.kind = "other"
\* The number of inputs of a call that come before the first nil or unsupported one.
RECURSIVE Leading(_)
Leading(data) ==
    IF data = <<>> \/ NilOrUnsupported(Head(data)) THEN 0 ELSE 1 + Leading(Tail(data))
\* What a WriteAny call returned, with the number of leading inputs of the call and
\* the kind of the input after them ("none": every input is well-formed).
WriteAnyReturned(err, data) ==
    [op |-> "WriteAny", err |-> err, sum |-> <<>>,
     leading |-> Leading(data),
     refused |-> IF Leading(data) = Len(data) THEN "none" ELSE data[Leading(data) + 1].kind]

DoWriteAny ==
    /\ \E c \in Calls :
        LET res == WriteAny(HashOf(hasher, state, store), c.data, c.imports)
        IN  /\ Len(fed) + Len(c.imports) <= MaxWrites
            /\ hasher' = res.hash.h
            /\ state' = res.hash.state
            /\ store' = res.hash.store
            /\ fed' = fed \o TakenUp(c.data)
            /\ allOk' = (allOk /\ res.err = NoError)
            /\ hret' = WriteAnyReturned(res.err, c.data)
    /\ UNCHANGED <<roundVars, pedVars, keyVars>>

DoSum ==
    /\ hret' = HashReturned("Sum", NoError, <<Sum(HashOf(hasher, state, store))>>)
    /\ UNCHANGED <<hasher, state, store, fed, allOk, roundVars, pedVars, keyVars>>

\* A restart: a transcript is restored from the store; the running one is kept.
DoRestore ==
    /\ LET res == Restore(store)
       IN  hret' = HashReturned("Restore", res.err,
                                IF res.err = NoError THEN <<Sum(res.hash[1])>> ELSE <<>>)
    /\ UNCHANGED <<hasher, state, store, fed, allOk, roundVars, pedVars, keyVars>>

InitHash ==
    /\ hasher = New.h /\ state = New.state /\ store = New.store
    /\ fed = <<>> /\ allOk = TRUE
    /\ hret = HashReturned("none", NoError, <<>>)
    /\ BigGammaShare = EmptyMap /\ MessageBroadcasted = EmptyMap /\ out = <<>>
    /\ ret = Nil /\ accepted = {} /\ proofStatus = EmptyMap
    /\ pn = Nil /\ ps = Nil /\ pt = Nil /\ pcall = Nil /\ pret = "none"
    /\ keystore = <<>> /\ kcall = Nil /\ kret = Nil

NextHash ==
    \/ DoWriteAny
    \/ DoSum
    \/ DoRestore

SpecHash == InitHash /\ [][NextHash]_vars

(***************************************************************************)
(* Claims about the transcript.                                            *)
(***************************************************************************)

\* C8: after WriteAny calls that all returned no error, a transcript restored from
\* the store (which holds a persisted state) has the Sum of the running transcript.
C8_RestoreGivesSameSum ==
    (hret.op = "Restore" /\ allOk /\ fed # <<>> /\ store # <<>>)
    => /\ hret.err = NoError
       /\ hret.sum = <<Sum(HashOf(hasher, state, store))>>

\* The transcript that received the inputs one per call, over a store that accepts
\* every Import.
RECURSIVE OneByOne(_, _)
OneByOne(hash, inputs) ==
    IF inputs = <<>> THEN hash
    ELSE OneByOne(WriteAny(hash, <<Head(inputs)>>, <<TRUE>>).hash, Tail(inputs))

\* C9: the Sum of the transcript is the Sum of the transcript that received the same
\* writes one per call over a healthy store, however the writes were grouped into
\* calls, whatever the store answered and whatever Sum calls came in between; and
\* Sum returns that value.
C9_SumDependsOnWritesOnly ==
    /\ Sum(HashOf(hasher, state, store)) = Sum(OneByOne(New, fed))
    /\ hret.op = "Sum" => hret.sum = <<Sum(OneByOne(New, fed))>>

\* C9 witness: two writes were taken up, in a way other than one per successful call
\* on a healthy store (the store lags behind the state list), and Sum was called.
C9_Witness ==
    /\ hret.op = "Sum"
    /\ Len(fed) = 2
    /\ store # CborMarshal(state)

\* The entries the inputs stand for in the state list.
Entries(inputs) == [i \in 1 .. Len(inputs) |-> ToBeWritten(inputs[i]).w]

\* C16: a WriteAny call with a nil or unsupported input returns an error, and only the
\* inputs before that one reach the transcript: the state list and the hasher grow by
\* exactly these, and the store is left alone when there are none.
C16_RejectedInputWritesNothing ==
    [][hret'.op = "WriteAny"
       => LET written == Entries(SubSeq(fed', Len(fed) + 1, Len(fed')))
          IN  /\ hret'.refused # "none" => hret'.err # NoError
              /\ Len(written) = hret'.leading
              /\ state' = state \o written
              /\ hasher' = Replay(HashOf(hasher, state, store), written).h
              /\ hret'.leading = 0 => store' = store]_vars

\* C16 witness: a call whose second input is a nil []byte or *big.Int was refused
\* after its first input had been written.
C16_Witness ==
    /\ hret.op = "WriteAny" /\ hret.err # NoError
    /\ hret.refused \in {"bytes", "bigint"} /\ hret.leading = 1
    /\ Len(state) = 1 /\ Len(fed) = 1

\* "(" || u64_be(len(domain)) || domain || u64_be(len(data)) || data || ")" for
\* lengths below 256.
Frame(e) ==
    <<40>> \o <<0, 0, 0, 0, 0, 0, 0, Len(StringBytes(e.TheDomain))>> \o StringBytes(e.TheDomain)
           \o <<0, 0, 0, 0, 0, 0, 0, Len(e.Bytes)>> \o e.Bytes \o <<41>>
RECURSIVE Frames(_)
Frames(st) == IF st = <<>> THEN <<>> ELSE Frame(Head(st)) \o Frames(Tail(st))

\* C19: the bytes fed to the hasher are the frames of the entries of the state list,
\* in order, and a step only appends to the state list: the entries it had stay as
\* they were.
C19_StateListIsWhatWasHashed ==
    [][/\ hasher' = Frames(state')
       /\ Len(state') >= Len(state)
       /\ SubSeq(state', 1, Len(state)) = state]_vars

\* C19 witness: two entries are in the state list, the second written by a call
\* that a refused input ended.
C19_Witness ==
    /\ Len(state) = 2
    /\ hret.op = "WriteAny" /\ hret.err # NoError /\ hret.leading = 1
    /\ hasher = Frames(state)

(***************************************************************************)
(* pedersen.Parameters: ValidateParameters                                 *)
(***************************************************************************)
\* The largest natural number given as s or t.
MaxNat == 22
\* The moduli given as n.
Moduli == {15, 21}

RECURSIVE GCD(_, _)
GCD(a, b) == IF b = 0 THEN a ELSE GCD(b, a % b)

\* arith.IsValidNatModN(N, ints...): every one is given, in [1, N-1] and a unit mod N.
RECURSIVE IsValidNatModN(_, _)
IsValidNatModN(n, ints) ==
    \/ ints = <<>>
    \/ /\ Head(ints) # Nil
       /\ Head(ints) < n
       /\ GCD(Head(ints), n) = 1
       /\ IsValidNatModN(n, Tail(ints))

\* Mutant: s = t is tested before membership in the unit group.
ValidateParametersEqualFirst(n, s, t) ==
    IF n = Nil \/ s = Nil \/ t = Nil THEN "ErrNilFields"
    ELSE IF s = t THEN "ErrSEqualT"
    ELSE IF ~IsValidNatModN(n, <<s, t>>) THEN "ErrNotValidModN"
    ELSE NoError

ValidateParameters(n, s, t) ==
    IF n = Nil \/ s = Nil \/ t = Nil THEN "ErrNilFields"
    ELSE IF ~IsValidNatModN(n, <<s, t>>) THEN "ErrNotValidModN"
    ELSE IF s = t THEN "ErrSEqualT"
    ELSE NoError

DoValidateParameters ==
    /\ pret = "none"
    /\ pret' = ValidateParameters(pn, ps, pt)
    /\ UNCHANGED <<pn, ps, pt, pcall, roundVars, hashVars, keyVars>>

InitPed ==
    /\ pn \in Moduli \cup {Nil}
    /\ ps \in (0 .. MaxNat) \cup {Nil}
    /\ pt \in (0 .. MaxNat) \cup {Nil}
    /\ pcall = Nil
    /\ pret = "none"
    /\ BigGammaShare = EmptyMap /\ MessageBroadcasted = EmptyMap /\ out = <<>>
    /\ ret = Nil /\ accepted = {} /\ proofStatus = EmptyMap
    /\ hasher = <<>> /\ state = <<>> /\ store = <<>> /\ fed = <<>>
    /\ allOk = TRUE /\ hret = Nil
    /\ keystore = <<>> /\ kcall = Nil /\ kret = Nil

NextPed ==
    \/ DoValidateParameters

SpecPed == InitPed /\ [][NextPed]_vars

(***************************************************************************)
(* Claims about the Pedersen parameters.                                   *)
(***************************************************************************)
\* x is in [1, n-1] and shares no divisor above 1 with n.
InUnitGroup(x, n) ==
    /\ x \in 1 .. (n - 1)
    /\ \A d \in 2 .. x : ~(x % d = 0 /\ n % d = 0)

\* C10: ValidateParameters returns NilField when n, s or t is missing; otherwise
\* NotInUnitGroup when s or t is outside [1, n-1] or not coprime to n; otherwise
\* SEqualsT when s = t; otherwise nil.
C10_ValidateParameters ==
    pret # "none"
    => LET missing == pn = Nil \/ ps = Nil \/ pt = Nil
           units == InUnitGroup(ps, pn) /\ InUnitGroup(pt, pn)
       IN  pret = IF missing THEN "ErrNilFields"
                  ELSE IF ~units THEN "ErrNotValidModN"
                  ELSE IF ps = pt THEN "ErrSEqualT"
                  ELSE NoError

\* C10 witness: s = t, a unit mod n, was refused with SEqualsT.
C10_Witness ==
    /\ pret = "ErrSEqualT"
    /\ ps = pt /\ InUnitGroup(ps, pn)

(***************************************************************************)
(* pedersen.Parameters: Commit and Verify. A *saferith.Int argument is     *)
(* written <<v>>, a nil one <<>>; a *saferith.Nat is a natural or Nil.     *)
(***************************************************************************)
\* The largest magnitude of an exponent handed to Verify.
MaxExp == 2
\* The Parameters the calls are made on (New assumes ValidateParameters returned nil).
PedersenParams == {[n |-> 15, s |-> 2, t |-> 7], [n |-> 15, s |-> 4, t |-> 13]}
IntPtrs == {<<>>} \cup {<<v>> : v \in (0 - MaxExp) .. MaxExp}
NatPtrs(n) == (0 .. n) \cup {Nil}

\* Nat.ModMul
ModMul(a, b, n) == (a * b) % n
\* Nat.ModInverse, for a unit mod n.
ModInverse(x, n) == CHOOSE y \in 1 .. (n - 1) : (x * y) % n = 1
\* x^k mod n for k >= 0.
RECURSIVE ExpMod(_, _, _)
ExpMod(x, k, n) == IF k = 0 THEN 1 % n ELSE ModMul(x, ExpMod(x, k - 1, n), n)
\* arith.Modulus.ExpI: x^e mod n for a signed e; a negative e inverts x first.
ExpI(n, x, e) == IF e < 0 THEN ExpMod(ModInverse(x, n), 0 - e, n) ELSE ExpMod(x, e, n)

\* Mutant: the exponents of s and t are exchanged.
CommitSwapsExponents(p, x, y) ==
    LET sx == ExpI(p.n, p.s, y)
        ty == ExpI(p.n, p.t, x)
    IN  ModMul(sx, ty, p.n)

\* Parameters.Commit
Commit(p, x, y) ==
    LET sx == ExpI(p.n, p.s, x)
        ty == ExpI(p.n, p.t, y)
    IN  ModMul(sx, ty, p.n)

\* Mutant: S and T change places on the right-hand side.
VerifySwapsST(p, a, b, e, S, T) ==
    IF a = <<>> \/ b = <<>> \/ S = Nil \/ T = Nil \/ e = <<>> THEN FALSE
    ELSE IF ~IsValidNatModN(p.n, <<S, T>>) THEN FALSE
    ELSE LET sa == ExpI(p.n, p.s, a[1])
             tb == ExpI(p.n, p.t, b[1])
             lhs == ModMul(sa, tb, p.n)
             te == ExpI(p.n, S, e[1])
             rhs == ModMul(te, T, p.n)
         IN  lhs = rhs

\* Parameters.Verify
Verify(p, a, b, e, S, T) ==
    IF a = <<>> \/ b = <<>> \/ S = Nil \/ T = Nil \/ e = <<>> THEN FALSE
    ELSE IF ~IsValidNatModN(p.n, <<S, T>>) THEN FALSE
    ELSE LET sa == ExpI(p.n, p.s, a[1])
             tb == ExpI(p.n, p.t, b[1])
             lhs == ModMul(sa, tb, p.n)
             te == ExpI(p.n, T, e[1])
             rhs == ModMul(te, S, p.n)
         IN  lhs = rhs

Params == [n |-> pn, s |-> ps, t |-> pt]

DoCommit ==
    /\ pcall.op = "none"
    /\ \E x, y \in (0 - MaxExp) .. MaxExp :
        /\ pcall' = [op |-> "Commit", x |-> x, y |-> y]
        /\ pret' = <<Commit(Params, x, y)>>
    /\ UNCHANGED <<pn, ps, pt, roundVars, hashVars, keyVars>>

DoVerify ==
    /\ pcall.op = "none"
    /\ \E a, b, e \in IntPtrs, S, T \in NatPtrs(pn) :
        /\ pcall' = [op |-> "Verify", a |-> a, b |-> b, e |-> e, S |-> S, T |-> T]
        /\ pret' = <<Verify(Params, a, b, e, S, T)>>
    /\ UNCHANGED <<pn, ps, pt, roundVars, hashVars, keyVars>>

InitPedVerify ==
    /\ \E p \in PedersenParams : pn = p.n /\ ps = p.s /\ pt = p.t
    /\ pcall = [op |-> "none"]
    /\ pret = <<>>
    /\ BigGammaShare = EmptyMap /\ MessageBroadcasted = EmptyMap /\ out = <<>>
    /\ ret = Nil /\ accepted = {} /\ proofStatus = EmptyMap
    /\ hasher = <<>> /\ state = <<>> /\ store = <<>> /\ fed = <<>>
    /\ allOk = TRUE /\ hret = Nil
    /\ keystore = <<>> /\ kcall = Nil /\ kret = Nil

NextPedVerify ==
    \/ DoCommit
    \/ DoVerify

SpecPedVerify == InitPedVerify /\ [][NextPedVerify]_vars

(***************************************************************************)
(* Claims about Commit and Verify.                                         *)
(***************************************************************************)
\* x^k mod n by repeated multiplication, for k >= 0.
RECURSIVE Power(_, _, _)
Power(x, k, n) == IF k = 0 THEN 1 % n ELSE (x * Power(x, k - 1, n)) % n
Pos(v) == IF v > 0 THEN v ELSE 0
Neg(v) == IF v < 0 THEN 0 - v ELSE 0
\* s^a * t^b = S * T^e (mod n) for signed a, b, e and units s, t, T: the factors
\* with a negative exponent are moved to the other side.
Congruent(p, a, b, e, S, T) ==
    (Power(p.s, Pos(a), p.n) * Power(p.t, Pos(b), p.n) * Power(T, Neg(e), p.n)) % p.n
    = (S * Power(T, Pos(e), p.n) * Power(p.s, Neg(a), p.n) * Power(p.t, Neg(b), p.n)) % p.n

\* C11: Verify returns true exactly when a, b, e, S and T are all given, S and T are
\* units mod N, and s^a * t^b = S * T^e (mod N) for the signed exponents.
C11_VerifyIffCongruent ==
    pcall.op = "Verify"
    => (pret = <<TRUE>>
        <=> /\ pcall.a # <<>> /\ pcall.b # <<>> /\ pcall.e # <<>>
            /\ pcall.S # Nil /\ pcall.T # Nil
            /\ InUnitGroup(pcall.S, pn) /\ InUnitGroup(pcall.T, pn)
            /\ Congruent(Params, pcall.a[1], pcall.b[1], pcall.e[1], pcall.S, pcall.T))

\* C11 witness: Verify accepted a call with a negative exponent on each side.
C11_Witness ==
    /\ pcall.op = "Verify" /\ pret = <<TRUE>>
    /\ pcall.a # <<>> /\ pcall.a[1] < 0
    /\ pcall.e # <<>> /\ pcall.e[1] < 0
    /\ pcall.T # 1

\* The integers committed to and opened in the cases of C12.
Openings == {0 - 1, 0, 1}

\* C12: Verify(x + e*secret_x, y + e*secret_y, e, S, T) is true where
\* S = Commit(secret_x, secret_y) and T = Commit(0, 1) = t.
C12_OpeningOfSecretAgainstT ==
    (/\ pcall.op = "Verify"
     /\ pcall.a # <<>> /\ pcall.b # <<>> /\ pcall.e # <<>>
     /\ pcall.T = Commit(Params, 0, 1)
     /\ \E x, y, sx, sy \in Openings :
          /\ pcall.a[1] = x + pcall.e[1] * sx
          /\ pcall.b[1] = y + pcall.e[1] * sy
          /\ pcall.S = Commit(Params, sx, sy))
    => pret = <<TRUE>>

\* C12 as amended: Verify(x + e*secret_x, y + e*secret_y, e, S, T) is true where
\* S = Commit(x, y) and T = Commit(secret_x, secret_y).
C12_OpeningVerifies ==
    (/\ pcall.op = "Verify"
     /\ pcall.a # <<>> /\ pcall.b # <<>> /\ pcall.e # <<>>
     /\ \E x, y, sx, sy \in Openings :
          /\ pcall.a[1] = x + pcall.e[1] * sx
          /\ pcall.b[1] = y + pcall.e[1] * sy
          /\ pcall.S = Commit(Params, x, y)
          /\ pcall.T = Commit(Params, sx, sy))
    => pret = <<TRUE>>

\* C12 witness: Verify accepted the opening x = 1, y = -1, e = -1, secret_x = -1,
\* secret_y = 1 (a = 2, b = -2).
C12_Witness ==
    /\ pcall.op = "Verify" /\ pret = <<TRUE>>
    /\ pcall.a = <<2>> /\ pcall.b = <<0 - 2>> /\ pcall.e = <<0 - 1>>
    /\ pcall.S = Commit(Params, 1, 0 - 1)
    /\ pcall.T = Commit(Params, 0 - 1, 1)

(***************************************************************************)
(* pedersen.Parameters: MarshalBiinary and UnmarshalBiinary.               *)
(***************************************************************************)
\* Offsets and lengths are uint16.
Uint16(v) == v % 65536
\* binary.LittleEndian.PutUint16
PutUint16LE(v) == <<Uint16(v) % 256, Uint16(v) \div 256>>
\* binary.LittleEndian.Uint16
Uint16LE(b) == b[1] + 256 * b[2]
\* Nat.SetBytes: the natural a big-endian byte string stands for.
RECURSIVE SetBytes(_)
SetBytes(b) ==
    IF b = <<>> THEN 0 ELSE 256 * SetBytes(SubSeq(b, 1, Len(b) - 1)) + b[Len(b)]
\* Nat.MarshalBinary, Modulus.MarshalBinary: the big-endian bytes of the number.
NatMarshalBinary(x) == NatBytes(x)
\* Nat.UnmarshalBinary, Modulus.UnmarshalBinary
NatUnmarshalBinary(b) == SetBytes(b)

\* The slice expression data[lo:hi]: in range when lo <= hi <= len(data).
InRange(data, lo, hi) == lo <= hi /\ hi <= Len(data)
Slice(data, lo, hi) == SubSeq(data, lo + 1, hi)

\* Parameters.MarshalBiinary
MarshalBiinary(p) ==
    LET nb == NatMarshalBinary(p.n)
        sb == NatMarshalBinary(p.s)
        tb == NatMarshalBinary(p.t)
        nlb == PutUint16LE(Len(nb))
        slb == PutUint16LE(Len(sb))
        tlb == PutUint16LE(Len(tb))
    IN  nlb \o nb \o slb \o sb \o tlb \o tb

\* Mutant: the bytes of s are taken from where its length prefix starts.
UnmarshalBiinaryFromPrefix(data) ==
    IF ~InRange(data, 0, 2) THEN [err |-> "panic", p |-> <<>>]
    ELSE LET nl == Uint16LE(Slice(data, 0, 2))
             o1 == Uint16(2 + nl)
             o2 == Uint16(o1 + 2)
         IN  IF ~InRange(data, 2, o1) \/ ~InRange(data, o1, o2)
             THEN [err |-> "panic", p |-> <<>>]
             ELSE LET sl == Uint16LE(Slice(data, o1, o2))
                      o3 == Uint16(o1 + sl)
                      o4 == Uint16(o3 + 2)
                  IN  IF ~InRange(data, o1, o3) \/ ~InRange(data, o3, o4)
                      THEN [err |-> "panic", p |-> <<>>]
                      ELSE LET tl == Uint16LE(Slice(data, o3, o4))
                               o5 == Uint16(o4 + tl)
                           IN  IF ~InRange(data, o4, o5)
                               THEN [err |-> "panic", p |-> <<>>]
                               ELSE [err |-> NoError,
                                     p |-> <<[n |-> NatUnmarshalBinary(Slice(data, 2, o1)),
                                              s |-> NatUnmarshalBinary(Slice(data, o1, o3)),
                                              t |-> NatUnmarshalBinary(Slice(data, o4, o5))]>>]

\* Parameters.UnmarshalBiinary: the error returned ("panic": a slice bound out of
\* range) and the Parameters read.
UnmarshalBiinary(data) ==
    IF ~InRange(data, 0, 2) THEN [err |-> "panic", p |-> <<>>]
    ELSE LET nl == Uint16LE(Slice(data, 0, 2))
             o1 == Uint16(2 + nl)
             o2 == Uint16(o1 + 2)
         IN  IF ~InRange(data, 2, o1) \/ ~InRange(data, o1, o2)
             THEN [err |-> "panic", p |-> <<>>]
             ELSE LET sl == Uint16LE(Slice(data, o1, o2))
                      o3 == Uint16(o2 + sl)
                      o4 == Uint16(o3 + 2)
                  IN  IF ~InRange(data, o2, o3) \/ ~InRange(data, o3, o4)
                      THEN [err |-> "panic", p |-> <<>>]
                      ELSE LET tl == Uint16LE(Slice(data, o3, o4))
                               o5 == Uint16(o4 + tl)
                           IN  IF ~InRange(data, o4, o5)
                               THEN [err |-> "panic", p |-> <<>>]
                               ELSE [err |-> NoError,
                                     p |-> <<[n |-> NatUnmarshalBinary(Slice(data, 2, o1)),
                                              s |-> NatUnmarshalBinary(Slice(data, o2, o3)),
                                              t |-> NatUnmarshalBinary(Slice(data, o4, o5))]>>]

\* The valid Parameters that are serialized: one- and two-byte moduli, s and t small
\* or just below the modulus.
CodecModuli == {15, 21, 323}
CodecParams ==
    {p \in [n : CodecModuli, s : 1 .. 322, t : 1 .. 322] :
        /\ p.s \in (1 .. MaxNat) \cup {p.n - 2, p.n - 1}
        /\ p.t \in (1 .. MaxNat) \cup {p.n - 2, p.n - 1}
        /\ ValidateParameters(p.n, p.s, p.t) = NoError}

DoMarshalBiinary ==
    /\ pcall.op = "none"
    /\ pcall' = [op |-> "MarshalBiinary"]
    /\ pret' = <<MarshalBiinary(Params)>>
    /\ UNCHANGED <<pn, ps, pt, roundVars, hashVars, keyVars>>

\* The bytes MarshalBiinary returned are handed to UnmarshalBiinary.
DoUnmarshalBiinary ==
    /\ pcall.op = "MarshalBiinary"
    /\ pcall' = [op |-> "UnmarshalBiinary", data |-> pret[1]]
    /\ pret' = <<UnmarshalBiinary(pret[1])>>
    /\ UNCHANGED <<pn, ps, pt, roundVars, hashVars, keyVars>>

InitPedCodec ==
    /\ \E p \in CodecParams : pn = p.n /\ ps = p.s /\ pt = p.t
    /\ pcall = [op |-> "none"]
    /\ pret = <<>>
    /\ BigGammaShare = EmptyMap /\ MessageBroadcasted = EmptyMap /\ out = <<>>
    /\ ret = Nil /\ accepted = {} /\ proofStatus = EmptyMap
    /\ hasher = <<>> /\ state = <<>> /\ store = <<>> /\ fed = <<>>
    /\ allOk = TRUE /\ hret = Nil
    /\ keystore = <<>> /\ kcall = Nil /\ kret = Nil

NextPedCodec ==
    \/ DoMarshalBiinary
    \/ DoUnmarshalBiinary

SpecPedCodec == InitPedCodec /\ [][NextPedCodec]_vars

(***************************************************************************)
(* Claims about the Pedersen wire format.                                  *)
(***************************************************************************)
\* The bytes of x, most significant first, found without the encoder: the shortest
\* byte string of at most two bytes whose value is x.
BytesOf(x) == IF x = 0 THEN <<>> ELSE IF x < 256 THEN <<x>> ELSE <<x \div 256, x % 256>>
\* u16_le(len(b)) || b
Prefixed(b) == <<Len(b) % 256, Len(b) \div 256>> \o b

\* C13: MarshalBiinary gives u16_le(len(N)) || N || u16_le(len(s)) || s ||
\* u16_le(len(t)) || t, and UnmarshalBiinary of these bytes succeeds and yields the
\* same N, s and t.
C13_PedersenRoundTrip ==
    /\ pcall.op = "MarshalBiinary"
       => pret[1] = Prefixed(BytesOf(pn)) \o Prefixed(BytesOf(ps)) \o Prefixed(BytesOf(pt))
    /\ pcall.op = "UnmarshalBiinary"
       => /\ pret[1].err = NoError
          /\ pret[1].p = <<[n |-> pn, s |-> ps, t |-> pt]>>

\* C13 witness: Parameters whose fields have different lengths (N and t two bytes,
\* s one byte) came back from the round trip.
C13_Witness ==
    /\ pcall.op = "UnmarshalBiinary" /\ pret[1].err = NoError
    /\ pn = 323 /\ ps < 256 /\ pt > 255
    /\ Len(pcall.data) = 11

(***************************************************************************)
(* paillier.PaillierKey: Bytes and fromBytes. A key is [n, p, q, private]; *)
(* the public-only form has private = FALSE (secretKey == nil) and the     *)
(* empty key PaillierKey{} has neither part.                               *)
(***************************************************************************)
\* The bytes of capacity a slice can have past its length.
MaxTail == 2
\* The primes p = 3 (mod 4) the keys are made of.
KeyPrimes == {3, 7, 11, 19, 23}
PublicKeyOf(n) == [n |-> n, p |-> 0, q |-> 0, private |-> FALSE, empty |-> FALSE]
SecretKeyOf(p, q) == [n |-> p * q, p |-> p, q |-> q, private |-> TRUE, empty |-> FALSE]
\* PaillierKey{}
EmptyKey == [n |-> 0, p |-> 0, q |-> 0, private |-> FALSE, empty |-> TRUE]
PrimePairs == {pq \in KeyPrimes \X KeyPrimes : pq[1] < pq[2]}
Keys ==
    {SecretKeyOf(pq[1], pq[2]) : pq \in PrimePairs}
    \cup {PublicKeyOf(pq[1] * pq[2]) : pq \in PrimePairs}

\* SecretKey.MarshalBinary: u16_le(len(p)) || p || u16_le(len(q)) || q.
SecretKeyMarshalBinary(k) ==
    LET pb == NatMarshalBinary(k.p)
        qb == NatMarshalBinary(k.q)
    IN  PutUint16LE(Len(pb)) \o pb \o PutUint16LE(Len(qb)) \o qb

\* SecretKey.UnmarshalBinary: an error when the blob is not of that form.
SecretKeyUnmarshalBinary(sb) ==
    IF ~InRange(sb, 0, 2) THEN [err |-> "ErrUnmarshal", p |-> 0, q |-> 0]
    ELSE LET pl == Uint16LE(Slice(sb, 0, 2))
         IN  IF ~InRange(sb, 2, 2 + pl) \/ ~InRange(sb, 2 + pl, 4 + pl)
             THEN [err |-> "ErrUnmarshal", p |-> 0, q |-> 0]
             ELSE LET ql == Uint16LE(Slice(sb, 2 + pl, 4 + pl))
                  IN  IF 4 + pl + ql # Len(sb) \/ pl = 0 \/ ql = 0
                      THEN [err |-> "ErrUnmarshal", p |-> 0, q |-> 0]
                      ELSE [err |-> NoError,
                            p |-> NatUnmarshalBinary(Slice(sb, 2, 2 + pl)),
                            q |-> NatUnmarshalBinary(Slice(sb, 4 + pl, 4 + pl + ql))]

\* PaillierKey.Bytes
Bytes(k) ==
    LET nb == NatMarshalBinary(k.n)
        buf == PutUint16LE(Len(nb)) \o nb
    IN  IF ~k.private THEN buf
        ELSE LET skb == SecretKeyMarshalBinary(k)
             IN  buf \o PutUint16LE(Len(skb)) \o skb

\* fromBytes(data). tail is what lies in the capacity of data past its length: a slice
\* expression may reach into it. The error returned ("panic": a slice bound out of
\* range) and the key.
fromBytes(data, tail) ==
    LET full == data \o tail
    IN  IF ~InRange(full, 0, 2) THEN [err |-> "panic", key |-> EmptyKey]
        ELSE LET nl == Uint16LE(Slice(full, 0, 2))
                 o1 == Uint16(nl + 2)
                 o2 == Uint16(nl + 4)
             IN  IF nl = 0 THEN [err |-> NoError, key |-> EmptyKey]
                 ELSE IF ~InRange(full, 2, o1) THEN [err |-> "panic", key |-> EmptyKey]
                 ELSE LET n == NatUnmarshalBinary(Slice(full, 2, o1))
                      IN  IF ~InRange(full, o1, o2) THEN [err |-> "panic", key |-> EmptyKey]
                          ELSE LET sl == Uint16LE(Slice(full, o1, o2))
                                   o3 == Uint16(nl + 4 + sl)
                               IN  IF sl = 0 THEN [err |-> NoError, key |-> PublicKeyOf(n)]
                                   ELSE IF ~InRange(full, o2, o3)
                                   THEN [err |-> "panic", key |-> EmptyKey]
                                   ELSE LET sk == SecretKeyUnmarshalBinary(Slice(full, o2, o3))
                                        IN  IF sk.err # NoError
                                            THEN [err |-> sk.err, key |-> EmptyKey]
                                            ELSE [err |-> NoError,
                                                  key |-> [n |-> n, p |-> sk.p, q |-> sk.q,
                                                           private |-> TRUE, empty |-> FALSE]]

\* What can lie past the length of a byte slice: nothing, or a few bytes.
Tails == SeqsUpTo({0, 1}, MaxTail)

DoBytes ==
    /\ kcall.op = "none"
    /\ \E k \in Keys :
        /\ kcall' = [op |-> "Bytes", key |-> k]
        /\ kret' = <<Bytes(k)>>
    /\ UNCHANGED <<keystore, roundVars, hashVars, pedVars>>

\* The bytes Bytes returned are handed to fromBytes.
DoFromBytes ==
    /\ kcall.op = "Bytes"
    /\ \E tail \in Tails :
        /\ kcall' = [op |-> "fromBytes", key |-> kcall.key, data |-> kret[1], tail |-> tail]
        /\ kret' = <<fromBytes(kret[1], tail)>>
    /\ UNCHANGED <<keystore, roundVars, hashVars, pedVars>>

InitKeyCodec ==
    /\ keystore = <<>>
    /\ kcall = [op |-> "none"]
    /\ kret = <<>>
    /\ BigGammaShare = EmptyMap /\ MessageBroadcasted = EmptyMap /\ out = <<>>
    /\ ret = Nil /\ accepted = {} /\ proofStatus = EmptyMap
    /\ hasher = <<>> /\ state = <<>> /\ store = <<>> /\ fed = <<>>
    /\ allOk = TRUE /\ hret = Nil
    /\ pn = Nil /\ ps = Nil /\ pt = Nil /\ pcall = Nil /\ pret = "none"

NextKeyCodec ==
    \/ DoBytes
    \/ DoFromBytes

SpecKeyCodec == InitKeyCodec /\ [][NextKeyCodec]_vars

(***************************************************************************)
(* Claims about the Paillier key wire format.                              *)
(***************************************************************************)
\* C14: fromBytes of the bytes Bytes returned for a key succeeds and gives a key with
\* the same modulus and the same Private() status, for the public-only form and for
\* the form with secret.
C14_PaillierKeyRoundTrip ==
    kcall.op = "fromBytes"
    => /\ kret[1].err = NoError
       /\ kret[1].key.n = kcall.key.n
       /\ kret[1].key.private = kcall.key.private
       /\ ~kret[1].key.empty

(***************************************************************************)
(* paillier.PaillierKeyManager over a keystore holding one payload.        *)
(***************************************************************************)
\* The keys handed to the manager.
ManagedKeys == {SecretKeyOf(3, 7), PublicKeyOf(21), SecretKeyOf(19, 23), PublicKeyOf(437)}
\* Payloads a keystore can hold that no key was encoded to: a secret block that is
\* not of the sk_blob form, bytes cut short, and a zero length for N.
DamagedPayloads == {<<1, 0, 21, 1, 0, 9>>, <<1, 0>>, <<0, 0>>}
Payloads == {Bytes(k) : k \in ManagedKeys} \cup DamagedPayloads

\* pailliercore.ValidateN
ValidateN(n) == \E pq \in PrimePairs : n = pq[1] * pq[2]

\* keystore.Get(opts): getOk is whether the keystore could be read.
KeystoreGet(ks, getOk) ==
    IF getOk /\ ks # <<>> THEN [err |-> NoError, payload |-> ks[1]]
    ELSE [err |-> "GetFailed", payload |-> <<>>]

\* PaillierKeyManager.GetKey: the error and key returned, and whether the keystore
\* or the decoding failed on the way.
GetKey(ks, getOk, tail) ==
    LET got == KeystoreGet(ks, getOk)
    IN  IF got.err # NoError THEN [err |-> NoError, key |-> EmptyKey, failed |-> TRUE]
        ELSE LET dec == fromBytes(got.payload, tail)
             IN  IF dec.err = "panic" THEN [err |-> "panic", key |-> EmptyKey, failed |-> TRUE]
                 ELSE IF dec.err # NoError
                 THEN [err |-> NoError, key |-> EmptyKey, failed |-> TRUE]
                 ELSE [err |-> NoError, key |-> dec.key, failed |-> FALSE]

\* Encode, EncWithNonce, Decode, DecodeWithNonce, ValidateCiphertexts: each gets the
\* key and, unless GetKey returned an error, goes on to the key's operation.
KeyOperations == {"Encode", "EncWithNonce", "Decode", "DecodeWithNonce", "ValidateCiphertexts"}
UseKey(ks, getOk, tail) ==
    LET got == GetKey(ks, getOk, tail)
    IN  IF got.err # NoError
        THEN [err |-> got.err, proceeded |-> FALSE, key |-> EmptyKey, failed |-> got.failed]
        ELSE [err |-> NoError, proceeded |-> TRUE, key |-> got.key, failed |-> got.failed]

\* PaillierKeyManager.ImportKey: raw is a PaillierKey (isBytes = FALSE) or its bytes;
\* importOk is whether the keystore takes the payload. The error and the keystore after.
ImportKey(ks, raw, isBytes, tail, importOk) ==
    LET dec == IF isBytes THEN fromBytes(raw, tail) ELSE [err |-> NoError, key |-> raw]
    IN  IF dec.err # NoError THEN [err |-> dec.err, keystore |-> ks]
        ELSE IF dec.key.empty THEN [err |-> "panic", keystore |-> ks]
        ELSE IF ~ValidateN(dec.key.n) THEN [err |-> "invalid Paillier key", keystore |-> ks]
        ELSE IF ~importOk THEN [err |-> "failed to import key", keystore |-> ks]
        ELSE [err |-> NoError, keystore |-> <<Bytes(dec.key)>>]

DoImportKey ==
    /\ \E isBytes, importOk \in BOOLEAN, tail \in Tails :
        \E raw \in IF isBytes THEN Payloads ELSE ManagedKeys :
            LET res == ImportKey(keystore, raw, isBytes, tail, importOk)
            IN  /\ keystore' = res.keystore
                /\ kcall' = [op |-> "ImportKey", failed |-> res.err # NoError]
                /\ kret' = [err |-> res.err, proceeded |-> FALSE, key |-> EmptyKey]
    /\ UNCHANGED <<roundVars, hashVars, pedVars>>

DoGetKey ==
    /\ \E getOk \in BOOLEAN, tail \in Tails :
        LET res == GetKey(keystore, getOk, tail)
        IN  /\ kcall' = [op |-> "GetKey", failed |-> res.failed]
            /\ kret' = [err |-> res.err, proceeded |-> FALSE, key |-> res.key]
    /\ UNCHANGED <<keystore, roundVars, hashVars, pedVars>>

DoUseKey ==
    /\ \E op \in KeyOperations, getOk \in BOOLEAN, tail \in Tails :
        LET res == UseKey(keystore, getOk, tail)
        IN  /\ kcall' = [op |-> op, failed |-> res.failed]
            /\ kret' = [err |-> res.err, proceeded |-> res.proceeded, key |-> res.key]
    /\ UNCHANGED <<keystore, roundVars, hashVars, pedVars>>

\* The keystore is shared: what it holds at the start is any payload, or none.
InitKeyManager ==
    /\ keystore \in {<<>>} \cup {<<b>> : b \in Payloads}
    /\ kcall = [op |-> "none", failed |-> FALSE]
    /\ kret = [err |-> NoError, proceeded |-> FALSE, key |-> EmptyKey]
    /\ BigGammaShare = EmptyMap /\ MessageBroadcasted = EmptyMap /\ out = <<>>
    /\ ret = Nil /\ accepted = {} /\ proofStatus = EmptyMap
    /\ hasher = <<>> /\ state = <<>> /\ store = <<>> /\ fed = <<>>
    /\ allOk = TRUE /\ hret = Nil
    /\ pn = Nil /\ ps = Nil /\ pt = Nil /\ pcall = Nil /\ pret = "none"

NextKeyManager ==
    \/ DoImportKey
    \/ DoGetKey
    \/ DoUseKey

SpecKeyManager == InitKeyManager /\ [][NextKeyManager]_vars

(***************************************************************************)
(* Claims about the key manager.                                           *)
(***************************************************************************)
\* C15: when the keystore Get fails or the payload cannot be decoded, GetKey returns
\* an error, and Encode, EncWithNonce, Decode, DecodeWithNonce and
\* ValidateCiphertexts do not go on to the key's operation.
C15_KeystoreErrorsSurface ==
    /\ (kcall.op = "GetKey" /\ kcall.failed) => kret.err # NoError
    /\ (kcall.op \in KeyOperations /\ kcall.failed) => ~kret.proceeded

(***************************************************************************)
(* The decoders on bytes that no encoder produced: UnmarshalBiinary and    *)
(* fromBytes are handed any byte string, with any bytes in its capacity.   *)
(***************************************************************************)
\* The longest byte string handed to a decoder.
MaxData == 4
\* The bytes it is made of: 0 (an empty field), 1 and 2 (short fields), 255 (a
\* length past the end of any input).
DataBytes == {0, 1, 2, 255}
IllFormedInputs == SeqsUpTo(DataBytes, MaxData)

\* p.UnmarshalBiinary(data) on a slice with tail in its capacity.
DoUnmarshalBiinaryOf ==
    /\ pcall.op = "none" /\ kcall.op = "none"
    /\ \E data \in IllFormedInputs, tail \in Tails :
        /\ pcall' = [op |-> "UnmarshalBiinary", data |-> data, tail |-> tail]
        /\ pret' = <<UnmarshalBiinary(data \o tail)>>
    /\ UNCHANGED <<pn, ps, pt, roundVars, hashVars, keyVars>>

\* fromBytes(data) on a slice with tail in its capacity.
DoFromBytesOf ==
    /\ pcall.op = "none" /\ kcall.op = "none"
    /\ \E data \in IllFormedInputs, tail \in Tails :
        /\ kcall' = [op |-> "fromBytes", data |-> data, tail |-> tail]
        /\ kret' = <<fromBytes(data, tail)>>
    /\ UNCHANGED <<keystore, roundVars, hashVars, pedVars>>

InitDecode ==
    /\ pn = Nil /\ ps = Nil /\ pt = Nil
    /\ pcall = [op |-> "none"]
    /\ pret = <<>>
    /\ keystore = <<>>
    /\ kcall = [op |-> "none"]
    /\ kret = <<>>
    /\ BigGammaShare = EmptyMap /\ MessageBroadcasted = EmptyMap /\ out = <<>>
    /\ ret = Nil /\ accepted = {} /\ proofStatus = EmptyMap
    /\ hasher = <<>> /\ state = <<>> /\ store = <<>> /\ fed = <<>>
    /\ allOk = TRUE /\ hret = Nil

NextDecode ==
    \/ DoUnmarshalBiinaryOf
    \/ DoFromBytesOf

SpecDecode == InitDecode /\ [][NextDecode]_vars

(***************************************************************************)
(* Claims about decoding ill-formed bytes.                                 *)
(***************************************************************************)
\* C21: for every byte string, UnmarshalBiinary and fromBytes do not panic on a slice
\* bound out of range, and fromBytes never returns the empty key with a nil error.
C21_DecodersNeverPanic ==
    /\ pcall.op = "UnmarshalBiinary" => pret[1].err # "panic"
    /\ kcall.op = "fromBytes"
       => /\ kret[1].err # "panic"
          /\ ~(kret[1].err = NoError /\ kret[1].key.empty)

(***************************************************************************)
(* The round-5 session with CanFinalize among its calls.                   *)
(***************************************************************************)
\* presign5.CanFinalize: ret.arg is the boolean returned.
DoCanFinalize ==
    /\ ret' = Returned("CanFinalize", NoError, SelfID,
                       IF CanFinalize(MessageBroadcasted) THEN "true" ELSE "false",
                       FALSE, <<>>)
    /\ UNCHANGED <<BigGammaShare, MessageBroadcasted, out, accepted, proofStatus,
                   hashVars, pedVars, keyVars>>

NextRoundCanFinalize ==
    \/ DoStoreBroadcastMessage
    \/ DoVerifyMessage
    \/ DoStoreMessage
    \/ DoFinalize
    \/ DoCanFinalize

SpecRoundCanFinalize == InitRound /\ [][NextRoundCanFinalize]_vars

\* C22: CanFinalize returns true exactly when a Finalize call in the same state would
\* not return NotEnoughMessages, which is when the number of recorded broadcasters is
\* N-1, and CanFinalize changes nothing of the round.
C22_CanFinalizeAgreesWithFinalize ==
    [][ret'.op = "CanFinalize"
       => /\ (ret'.arg = "true")
             <=> (\A order \in RangeOrders(BigGammaShare), sendOk \in BOOLEAN :
                    Finalize(BigGammaShare, MessageBroadcasted, order, sendOk).err
                        # "NotEnoughMessages")
          /\ (ret'.arg = "true") <=> (Cardinality(DOMAIN MessageBroadcasted) = N - 1)
          /\ ret'.arg \in {"true", "false"}
          /\ UNCHANGED <<BigGammaShare, MessageBroadcasted, out>>]_vars

\* C22 witness: CanFinalize returned true with all N-1 peers recorded, after it had
\* been of use: a Finalize in this state has sent its broadcast.
C22_Witness ==
    /\ ret.op = "CanFinalize" /\ ret.arg = "true"
    /\ Cardinality(DOMAIN MessageBroadcasted) = N - 1
    /\ \A order \in RangeOrders(BigGammaShare) :
         Finalize(BigGammaShare, MessageBroadcasted, order, TRUE).err = NoError

====
